---- MODULE Spec2Model ----
(***************************************************************************)
(* The editor of src/main.rs as a state machine: the Editor struct, one    *)
(* action per arm of Editor::update, and the asynchronous operations       *)
(* load_file, pick_file and save_file run by the executor against a small  *)
(* file system.                                                            *)
(***************************************************************************)
EXTENDS Naturals, Sequences, FiniteSets, TLC

\* ---------------------------------------------------------------- bounds
\* Longest buffer text (characters, line breaks included) an edit may build.
MaxLen == 1
\* Most presses of Open and Save in one run.
MaxOps == 2
MaxEdits == 3

\* ------------------------------------------------------------ basic values
None == <<>>
Some(x) == <<x>>

NL == "\n"
\* Characters the keyboard inserts into the buffer.
EditChars == {"a"}

\* default_file(): CARGO_MANIFEST_DIR/src/main.rs.
default_file == "/repo/src/main.rs"
\* The paths the native dialogs can return.
DialogPaths == {default_file, "/tmp/x.txt"}
AllPaths == DialogPaths

\* enum Error { DialogClose, IOFailed(io::ErrorKind) }
DialogClose == <<"DialogClose">>
IOFailed(kind) == <<"IOFailed", kind>>
IOKinds == {"NotFound", "PermissionDenied"}
IsIOFailed(e) == Len(e) = 2 /\ e[1] = "IOFailed"

\* highlighter::Theme (two of Theme::ALL).
Themes == {"SolarizedDark", "InspiredGitHub"}

Ok(v) == [ok |-> TRUE, val |-> v]
Err(e) == [ok |-> FALSE, err |-> e]

\* ------------------------------------------------- text_editor::Content
\* A text is a sequence of characters; a Content is its lines (without their
\* terminators) and the cursor (line, column), both 0-indexed.
\* Content is the iced widget's type; with, text and edit are modelled as
\* the widget implements them.

\* The lines of a text: every NL ends a line, and what follows the last NL
\* is a line only when it is not empty.
RECURSIVE SplitLines(_, _)
SplitLines(txt, cur) ==
    IF txt = <<>> THEN (IF cur = <<>> THEN <<>> ELSE <<cur>>)
    ELSE IF Head(txt) = NL THEN <<cur>> \o SplitLines(Tail(txt), <<>>)
    ELSE SplitLines(Tail(txt), Append(cur, Head(txt)))

\* Content::with(text): the lines of text (always at least one line), the
\* cursor at the start.
ContentWith(txt) ==
    LET ls == SplitLines(txt, <<>>)
    IN  [lines |-> IF ls = <<>> THEN << <<>> >> ELSE ls, cursor |-> <<0, 0>>]

\* Content::new()
ContentNew == ContentWith(<<>>)

RECURSIVE JoinLines(_)
JoinLines(ls) ==
    IF Len(ls) = 0 THEN <<>>
    ELSE IF Len(ls) = 1 THEN ls[1]
    ELSE ls[1] \o <<NL>> \o JoinLines(Tail(ls))

EndsWithNL(txt) == Len(txt) > 0 /\ txt[Len(txt)] = NL

\* Content::text() without the final line break it adds.
ContentText_NoFinalNL(c) == JoinLines(c.lines)

\* Content::text(): the lines joined with NL, and one NL added when the
\* result does not end with one.
ContentText(c) ==
    LET t == JoinLines(c.lines)
    IN  IF EndsWithNL(t) THEN t ELSE Append(t, NL)

\* Characters of the buffer, line breaks included.
BufferLen(c) == Len(JoinLines(c.lines))

\* Content::cursor_position()
cursor_position(c) == c.cursor

\* ------------------------------------------------- text_editor::Action
\* The actions the text_editor widget publishes through on_edit.
EditActions ==
    {<<"Insert", ch>> : ch \in EditChars}
        \cup {<<"Enter">>, <<"Backspace">>, <<"MoveLeft">>, <<"MoveRight">>}

RemoveAt(s, i) == SubSeq(s, 1, i - 1) \o SubSeq(s, i + 1, Len(s))
InsertAt(s, i, x) == SubSeq(s, 1, i - 1) \o <<x>> \o SubSeq(s, i, Len(s))

\* Content::edit(action). l is the 1-based index of the cursor's line,
\* col the number of characters left of the cursor in it.
ContentEdit(c, a) ==
    LET l    == c.cursor[1] + 1
        col  == c.cursor[2]
        ls   == c.lines
        line == ls[l]
    IN  CASE a[1] = "Insert" ->
               [lines  |-> [ls EXCEPT ![l] = InsertAt(line, col + 1, a[2])],
                cursor |-> <<l - 1, col + 1>>]
          [] a[1] = "Enter" ->
               [lines  |-> SubSeq(ls, 1, l - 1)
                             \o <<SubSeq(line, 1, col), SubSeq(line, col + 1, Len(line))>>
                             \o SubSeq(ls, l + 1, Len(ls)),
                cursor |-> <<l, 0>>]
          [] a[1] = "Backspace" ->
               IF col > 0
               THEN [lines  |-> [ls EXCEPT ![l] = RemoveAt(line, col)],
                     cursor |-> <<l - 1, col - 1>>]
               ELSE IF l > 1
               THEN [lines  |-> SubSeq(ls, 1, l - 2) \o <<ls[l - 1] \o line>>
                                  \o SubSeq(ls, l + 1, Len(ls)),
                     cursor |-> <<l - 2, Len(ls[l - 1])>>]
               ELSE c
          [] a[1] = "Delete" ->
               IF col < Len(line)
               THEN [c EXCEPT !.lines = [ls EXCEPT ![l] = RemoveAt(line, col + 1)]]
               ELSE IF l < Len(ls)
               THEN [c EXCEPT !.lines = SubSeq(ls, 1, l - 1) \o <<line \o ls[l + 1]>>
                                          \o SubSeq(ls, l + 2, Len(ls))]
               ELSE c
          [] a[1] = "Paste" ->
               [lines  |-> [ls EXCEPT ![l] = SubSeq(line, 1, col) \o a[2]
                                               \o SubSeq(line, col + 1, Len(line))],
                cursor |-> <<l - 1, col + Len(a[2])>>]
          [] a[1] = "MoveLeft" ->
               IF col > 0 THEN [c EXCEPT !.cursor = <<l - 1, col - 1>>]
               ELSE IF l > 1 THEN [c EXCEPT !.cursor = <<l - 2, Len(ls[l - 1])>>]
               ELSE c
          [] a[1] = "MoveRight" ->
               IF col < Len(line) THEN [c EXCEPT !.cursor = <<l - 1, col + 1>>]
               ELSE IF l < Len(ls) THEN [c EXCEPT !.cursor = <<l, 0>>]
               ELSE c
          [] OTHER -> c

\* An action that makes the text longer.
Grows(a) == a[1] \in {"Insert", "Enter"}

\* ---------------------------------------------------------------- view
\* io::ErrorKind's Display, which error.to_string() prints.
KindText(k) == IF k = "NotFound" THEN "entity not found" ELSE "permission denied"

\* A path whose bytes are not valid UTF-8.
NonUtf8Path == "/tmp/<FF>.txt"

\* Path::to_str: the path as a string when it is valid UTF-8.
to_str(p) == IF p = NonUtf8Path THEN None ELSE Some(p)

\* The status text when no I/O failure is shown: the path, or "New File".
PathText(p) ==
    IF p # None /\ to_str(p[1]) # None THEN to_str(p[1])[1] ELSE "New File"

\* The text of view's cursor position, "line:column" counted from one.
PositionText(c) == <<cursor_position(c)[1] + 1, ":", cursor_position(c)[2] + 1>>

\* The text of view's status_bar for the fields (error, path).
StatusText(e, p) ==
    IF e # None /\ IsIOFailed(e[1]) THEN KindText(e[1][2]) ELSE PathText(p)

\* ------------------------------------------------------------------ state
VARIABLES
    path,       \* Editor.path: Option<PathBuf>
    content,    \* Editor.content: text_editor::Content
    error,      \* Editor.error: Option<Error>
    theme,      \* Editor.theme: highlighter::Theme
    fs,         \* the file system: path -> Option<text>
    issued,     \* presses of Open and Save so far
    tasks,      \* Command::perform futures not yet complete, in issue order
    msgs,       \* completion messages not yet handed to update, in completion order
    last,       \* the Message update processed last
    pre,        \* the Editor fields before that update
    loaded,     \* the (path, content) of the load the path and buffer still come from
    hist        \* what update has processed so far, and what view rendered last

vars == <<path, content, error, theme, fs, issued, tasks, msgs, last, pre, loaded,
          hist>>

\* The futures: load_file(path), pick_file(), save_file(path, content).
\* Two fields are history only: overtaken, the operations issued later that
\* completed first, and loaded, the value of loaded when Save was pressed.
LoadTask(p) ==
    [op |-> "load_file", path |-> Some(p), content |-> <<>>, overtaken |-> {}, loaded |-> None]
PickTask ==
    [op |-> "pick_file", path |-> None, content |-> <<>>, overtaken |-> {}, loaded |-> None]
SaveTask(p, txt, ld) ==
    [op |-> "save_file", path |-> p, content |-> txt, overtaken |-> {}, loaded |-> ld]

\* The file systems the program may start on.
InitFS ==
    {[p \in AllPaths |->
        IF p = default_file THEN d ELSE Some(<<"a">>)] : d \in {None, Some(<<"a", NL>>)}}

\* Nothing processed and nothing rendered yet.
InitHist ==
    [edits |-> Some(<<>>), done |-> 0, success |-> None, failure |-> None,
     shown |-> None]

\* Editor::new that issues no load of the default file.
Init_NoLoad ==
    /\ path = None
    /\ content = ContentNew
    /\ error = None
    /\ theme = "SolarizedDark"
    /\ fs \in InitFS
    /\ issued = 0
    /\ tasks = <<>>
    /\ msgs = <<>>
    /\ last = [tag |-> "Init"]
    /\ pre = [path |-> None, content |-> ContentNew, error |-> None,
              theme |-> "SolarizedDark"]
    /\ loaded = None
    /\ hist = InitHist

\* Editor::new
Init ==
    /\ path = None
    /\ content = ContentNew
    /\ error = None
    /\ theme = "SolarizedDark"
    /\ fs \in InitFS
    /\ issued = 0
    /\ tasks = <<LoadTask(default_file)>>
    /\ msgs = <<>>
    /\ last = [tag |-> "Init"]
    /\ pre = [path |-> None, content |-> ContentNew, error |-> None,
              theme |-> "SolarizedDark"]
    /\ loaded = None
    /\ hist = InitHist

\* The history after update has processed message m, an Edit of action a[1]
\* when a is Some: edits are the actions of the Edit messages while nothing
\* else was processed since startup (None once something else was, or past
\* MaxEdits of them), done counts the completion messages, success is the
\* path of the latest successful completion since startup or the latest New,
\* failure the error of the latest failed completion since the latest Edit.
HistAfter(m, a) ==
    LET completion == m.tag \in {"FileOpened", "FileSaved"}
    IN  [edits   |-> IF a # None /\ hist.edits # None /\ Len(hist.edits[1]) < MaxEdits
                     THEN Some(Append(hist.edits[1], a[1]))
                     ELSE None,
         done    |-> IF completion THEN hist.done + 1 ELSE hist.done,
         success |-> IF completion
                     THEN IF ~m.res.ok THEN hist.success
                          ELSE IF m.tag = "FileSaved" THEN Some(m.res.val)
                          ELSE Some(m.res.val.path)
                     ELSE IF m.tag = "New" THEN None ELSE hist.success,
         failure |-> IF completion
                     THEN IF m.res.ok THEN hist.failure ELSE Some(m.res.err)
                     ELSE IF m.tag = "Edit" THEN None ELSE hist.failure,
         shown   |-> hist.shown]

\* What every call of update records about itself.
Record(m, a) ==
    /\ last' = m
    /\ pre' = [path |-> path, content |-> content, error |-> error,
               theme |-> theme]
    /\ hist' = HistAfter(m, a)

Processed(m) == Record(m, None)

\* ------------------------------------------------- update: the UI's messages
\* Message::Edit that edits the buffer and leaves the error in place.
Edit_KeepsError(a) ==
    /\ Grows(a) => BufferLen(content) < MaxLen
    /\ content' = ContentEdit(content, a)
    /\ loaded' = None
    /\ Record([tag |-> "Edit"], Some(a))
    /\ UNCHANGED <<issued, path, error, theme, fs, tasks, msgs>>

\* Message::Edit that applies its action twice.
Edit_AppliesTwice(a) ==
    /\ Grows(a) => BufferLen(content) < MaxLen
    /\ error' = None
    /\ content' = ContentEdit(ContentEdit(content, a), a)
    /\ loaded' = None
    /\ Record([tag |-> "Edit"], Some(a))
    /\ UNCHANGED <<issued, path, theme, fs, tasks, msgs>>

\* Message::Edit(action)
Edit(a) ==
    /\ Grows(a) => BufferLen(content) < MaxLen
    /\ error' = None
    /\ content' = ContentEdit(content, a)
    /\ loaded' = None
    /\ Record([tag |-> "Edit"], Some(a))
    /\ UNCHANGED <<issued, path, theme, fs, tasks, msgs>>

\* Message::New that forgets the path and keeps the buffer.
New_KeepsBuffer ==
    /\ path' = None
    /\ loaded' = None
    /\ Processed([tag |-> "New"])
    /\ UNCHANGED <<issued, content, error, theme, fs, tasks, msgs>>

\* Message::New that empties the buffer and keeps the path.
New_KeepsPath ==
    /\ content' = ContentNew
    /\ loaded' = None
    /\ Processed([tag |-> "New"])
    /\ UNCHANGED <<issued, path, error, theme, fs, tasks, msgs>>

\* Message::New that also clears the error.
New_ClearsError ==
    /\ path' = None
    /\ content' = ContentNew
    /\ error' = None
    /\ loaded' = None
    /\ Processed([tag |-> "New"])
    /\ UNCHANGED <<issued, theme, fs, tasks, msgs>>

\* Message::New
New ==
    /\ path' = None
    /\ content' = ContentNew
    /\ loaded' = None
    /\ Processed([tag |-> "New"])
    /\ UNCHANGED <<issued, error, theme, fs, tasks, msgs>>

\* Message::Open that also clears the error.
Open_ClearsError ==
    /\ issued < MaxOps
    /\ issued' = issued + 1
    /\ error' = None
    /\ tasks' = Append(tasks, PickTask)
    /\ Processed([tag |-> "Open"])
    /\ UNCHANGED <<loaded, path, content, theme, fs, msgs>>

\* Message::Open
Open ==
    /\ issued < MaxOps
    /\ issued' = issued + 1
    /\ tasks' = Append(tasks, PickTask)
    /\ Processed([tag |-> "Open"])
    /\ UNCHANGED <<loaded, path, content, error, theme, fs, msgs>>

\* Message::Save
Save ==
    /\ issued < MaxOps
    /\ issued' = issued + 1
    /\ tasks' = Append(tasks, SaveTask(path, ContentText(content), loaded))
    /\ Processed([tag |-> "Save"])
    /\ UNCHANGED <<loaded, path, content, error, theme, fs, msgs>>

\* Message::ThemeSelected(theme)
ThemeSelected(t) ==
    /\ theme' = t
    /\ Processed([tag |-> "ThemeSelected", theme |-> t])
    /\ UNCHANGED <<loaded, issued, path, content, error, fs, tasks, msgs>>

\* ------------------------------------------- the asynchronous operations
\* What the environment decides: the answer of a native dialog (None when
\* the user dismisses it) and a failure of the file system call, if any.
DialogAnswers == {None} \cup {Some(p) : p \in DialogPaths}
Faults == {None, Some("PermissionDenied")}

\* tokio::fs::read_to_string(path)
read_to_string(f, p, fault) ==
    IF f[p] = None THEN Err("NotFound")
    ELSE IF fault # None THEN Err(fault[1])
    ELSE Ok(f[p][1])

\* A write that appends to what the file holds.
write_Appends(f, p, txt, fault) ==
    IF fault # None THEN [res |-> Err(fault[1]), fs |-> f]
    ELSE [res |-> Ok(p),
          fs  |-> [f EXCEPT ![p] = Some((IF @ = None THEN <<>> ELSE @[1]) \o txt)]]

\* tokio::fs::write(path, content): the result and the file system after it.
write(f, p, txt, fault) ==
    IF fault # None THEN [res |-> Err(fault[1]), fs |-> f]
    ELSE [res |-> Ok(p), fs |-> [f EXCEPT ![p] = Some(txt)]]

\* load_file(path)
load_file(f, p, fault) ==
    LET r == read_to_string(f, p, fault)
    IN  IF r.ok THEN Ok([path |-> p, content |-> r.val]) ELSE Err(IOFailed(r.err))

\* pick_file()
pick_file(f, answer, fault) ==
    IF answer = None THEN Err(DialogClose) ELSE load_file(f, answer[1], fault)

\* save_file that falls back to the default file when the dialog is dismissed.
save_file_WritesOnCancel(f, p, txt, answer, fault) ==
    LET dest == IF p # None THEN p[1] ELSE IF answer # None THEN answer[1] ELSE default_file
        w    == write(f, dest, txt, fault)
    IN  IF p = None /\ answer = None THEN [res |-> Err(DialogClose), fs |-> w.fs]
        ELSE IF w.res.ok THEN w ELSE [res |-> Err(IOFailed(w.res.err)), fs |-> f]

\* save_file that opens the dialog even when it was given a path.
save_file_AlwaysAsks(f, p, txt, answer, fault) ==
    IF p = None /\ answer = None THEN [res |-> Err(DialogClose), fs |-> f]
    ELSE LET dest == IF answer # None THEN answer[1] ELSE p[1]
             w    == write(f, dest, txt, fault)
         IN  IF w.res.ok THEN w ELSE [res |-> Err(IOFailed(w.res.err)), fs |-> f]

\* save_file(path, content): the result and the file system after it. The
\* dialog is asked only when path is None.
save_file(f, p, txt, answer, fault) ==
    IF p = None /\ answer = None THEN [res |-> Err(DialogClose), fs |-> f]
    ELSE LET dest == IF p # None THEN p[1] ELSE answer[1]
             w    == write(f, dest, txt, fault)
         IN  IF w.res.ok THEN w ELSE [res |-> Err(IOFailed(w.res.err)), fs |-> f]

\* A completion whose failure reaches nobody.
Complete_LosesFailure(i, tag, res) ==
    /\ tasks' = [j \in 1..(Len(tasks) - 1) |->
                    IF j < i THEN [tasks[j] EXCEPT !.overtaken = @ \cup {tasks[i].op}]
                    ELSE tasks[j + 1]]
    /\ msgs' = IF res.ok
               THEN Append(msgs, [tag |-> tag, res |-> res, op |-> tasks[i].op,
                                  overtaken |-> tasks[i].overtaken,
                                  loaded |-> tasks[i].loaded])
               ELSE msgs

\* The future at position i completes: it leaves tasks, every future issued
\* before it is overtaken, and its output reaches update's queue as the
\* message Command::perform wraps it in (op, overtaken and loaded are
\* history).
Complete(i, tag, res) ==
    /\ tasks' = [j \in 1..(Len(tasks) - 1) |->
                    IF j < i THEN [tasks[j] EXCEPT !.overtaken = @ \cup {tasks[i].op}]
                    ELSE tasks[j + 1]]
    /\ msgs' = Append(msgs, [tag |-> tag, res |-> res, op |-> tasks[i].op,
                            overtaken |-> tasks[i].overtaken,
                            loaded |-> tasks[i].loaded])

\* Command::perform(load_file(default_file()), Message::FileOpened)
RunLoadFile(i, fault) ==
    /\ i \in 1..Len(tasks)
    /\ tasks[i].op = "load_file"
    /\ Complete(i, "FileOpened", load_file(fs, tasks[i].path[1], fault))
    /\ UNCHANGED <<loaded, issued, path, content, error, theme, fs, last, pre, hist>>

\* Command::perform(pick_file(), Message::FileOpened)
RunPickFile(i, answer, fault) ==
    /\ i \in 1..Len(tasks)
    /\ tasks[i].op = "pick_file"
    /\ Complete(i, "FileOpened", pick_file(fs, answer, fault))
    /\ UNCHANGED <<loaded, issued, path, content, error, theme, fs, last, pre, hist>>

\* A save that reads the path and the buffer when it runs.
RunSaveFile_UsesCurrent(i, answer, fault) ==
    /\ i \in 1..Len(tasks)
    /\ tasks[i].op = "save_file"
    /\ LET r == save_file(fs, path, ContentText(content), answer, fault)
       IN  /\ Complete(i, "FileSaved", r.res)
           /\ fs' = r.fs
    /\ UNCHANGED <<loaded, issued, path, content, error, theme, last, pre, hist>>

\* Command::perform(save_file(path, content), Message::FileSaved)
RunSaveFile(i, answer, fault) ==
    /\ i \in 1..Len(tasks)
    /\ tasks[i].op = "save_file"
    /\ LET r == save_file(fs, tasks[i].path, tasks[i].content, answer, fault)
       IN  /\ Complete(i, "FileSaved", r.res)
           /\ fs' = r.fs
    /\ UNCHANGED <<loaded, issued, path, content, error, theme, last, pre, hist>>

\* ------------------------------------------ update: the completion messages
\* Message::FileSaved(Ok) that also clears the error.
FileSavedOk_ClearsError ==
    /\ msgs # <<>>
    /\ Head(msgs).tag = "FileSaved" /\ Head(msgs).res.ok
    /\ path' = Some(Head(msgs).res.val)
    /\ error' = None
    /\ loaded' = IF path' = path THEN loaded ELSE None
    /\ msgs' = Tail(msgs)
    /\ Processed(Head(msgs))
    /\ UNCHANGED <<issued, content, theme, fs, tasks>>

\* Message::FileSaved(Ok(path))
FileSavedOk ==
    /\ msgs # <<>>
    /\ Head(msgs).tag = "FileSaved" /\ Head(msgs).res.ok
    /\ path' = Some(Head(msgs).res.val)
    /\ loaded' = IF path' = path THEN loaded ELSE None
    /\ msgs' = Tail(msgs)
    /\ Processed(Head(msgs))
    /\ UNCHANGED <<issued, content, error, theme, fs, tasks>>

\* Message::FileSaved(Err) that also forgets the path.
FileSavedErr_ClearsPath ==
    /\ msgs # <<>>
    /\ Head(msgs).tag = "FileSaved" /\ ~Head(msgs).res.ok
    /\ error' = Some(Head(msgs).res.err)
    /\ path' = None
    /\ loaded' = None
    /\ msgs' = Tail(msgs)
    /\ Processed(Head(msgs))
    /\ UNCHANGED <<issued, content, theme, fs, tasks>>

\* Message::FileSaved(Err(error))
FileSavedErr ==
    /\ msgs # <<>>
    /\ Head(msgs).tag = "FileSaved" /\ ~Head(msgs).res.ok
    /\ error' = Some(Head(msgs).res.err)
    /\ msgs' = Tail(msgs)
    /\ Processed(Head(msgs))
    /\ UNCHANGED <<loaded, issued, path, content, theme, fs, tasks>>

\* Message::FileOpened(Ok) that appends the loaded lines to the buffer.
FileOpenedOk_Merges ==
    /\ msgs # <<>>
    /\ Head(msgs).tag = "FileOpened" /\ Head(msgs).res.ok
    /\ path' = Some(Head(msgs).res.val.path)
    /\ content' = [content EXCEPT
                      !.lines = @ \o ContentWith(Head(msgs).res.val.content).lines]
    /\ loaded' = Some(Head(msgs).res.val)
    /\ msgs' = Tail(msgs)
    /\ Processed(Head(msgs))
    /\ UNCHANGED <<issued, error, theme, fs, tasks>>

\* Message::FileOpened(Ok) that also clears the error.
FileOpenedOk_ClearsError ==
    /\ msgs # <<>>
    /\ Head(msgs).tag = "FileOpened" /\ Head(msgs).res.ok
    /\ path' = Some(Head(msgs).res.val.path)
    /\ content' = ContentWith(Head(msgs).res.val.content)
    /\ error' = None
    /\ loaded' = Some(Head(msgs).res.val)
    /\ msgs' = Tail(msgs)
    /\ Processed(Head(msgs))
    /\ UNCHANGED <<issued, theme, fs, tasks>>

\* Message::FileOpened(Ok) that drops the result of an Open a later Open overtook.
FileOpenedOk_DropsStale ==
    /\ msgs # <<>>
    /\ Head(msgs).tag = "FileOpened" /\ Head(msgs).res.ok
    /\ IF "pick_file" \in Head(msgs).overtaken
       THEN UNCHANGED <<path, content, loaded>>
       ELSE /\ path' = Some(Head(msgs).res.val.path)
            /\ content' = ContentWith(Head(msgs).res.val.content)
            /\ loaded' = Some(Head(msgs).res.val)
    /\ msgs' = Tail(msgs)
    /\ Processed(Head(msgs))
    /\ UNCHANGED <<issued, error, theme, fs, tasks>>

\* Message::FileOpened(Ok((path, content)))
FileOpenedOk ==
    /\ msgs # <<>>
    /\ Head(msgs).tag = "FileOpened" /\ Head(msgs).res.ok
    /\ path' = Some(Head(msgs).res.val.path)
    /\ content' = ContentWith(Head(msgs).res.val.content)
    /\ loaded' = Some(Head(msgs).res.val)
    /\ msgs' = Tail(msgs)
    /\ Processed(Head(msgs))
    /\ UNCHANGED <<issued, error, theme, fs, tasks>>

\* Message::FileOpened(Err) that also empties the buffer.
FileOpenedErr_ClearsBuffer ==
    /\ msgs # <<>>
    /\ Head(msgs).tag = "FileOpened" /\ ~Head(msgs).res.ok
    /\ error' = Some(Head(msgs).res.err)
    /\ content' = ContentNew
    /\ loaded' = None
    /\ msgs' = Tail(msgs)
    /\ Processed(Head(msgs))
    /\ UNCHANGED <<issued, path, theme, fs, tasks>>

\* Message::FileOpened(Err(error))
FileOpenedErr ==
    /\ msgs # <<>>
    /\ Head(msgs).tag = "FileOpened" /\ ~Head(msgs).res.ok
    /\ error' = Some(Head(msgs).res.err)
    /\ msgs' = Tail(msgs)
    /\ Processed(Head(msgs))
    /\ UNCHANGED <<loaded, issued, path, content, theme, fs, tasks>>

\* ---------------------------------------------------------- specification
Next ==
    \/ \E a \in EditActions : Edit(a)
    \/ New
    \/ Open
    \/ Save
    \/ \E t \in Themes : ThemeSelected(t)
    \/ \E i \in 1..(MaxOps + 1), fault \in Faults : RunLoadFile(i, fault)
    \/ \E i \in 1..(MaxOps + 1), answer \in DialogAnswers, fault \in Faults :
          RunPickFile(i, answer, fault)
    \/ \E i \in 1..(MaxOps + 1), answer \in DialogAnswers, fault \in Faults :
          RunSaveFile(i, answer, fault)
    \/ FileSavedOk
    \/ FileSavedErr
    \/ FileOpenedOk
    \/ FileOpenedErr

Spec == Init /\ [][Next]_vars

TypeOK ==
    /\ path \in {None} \cup {Some(p) : p \in AllPaths}
    /\ error \in {None, Some(DialogClose)} \cup {Some(IOFailed(k)) : k \in IOKinds}
    /\ theme \in Themes

\* ------------------------------------- typing a word and saving the buffer
\* The text the user inserts in one Edit.
Hi == <<"h", "i">>

\* Message::Edit(Action::Edit(Edit::Paste(Hi))) on the empty buffer.
EditPaste == content = ContentNew /\ Edit(<<"Paste", Hi>>)

\* The editor with the events New, Save and one inserting Edit.
NextSave ==
    \/ EditPaste
    \/ New
    \/ Save
    \/ \E i \in 1..(MaxOps + 1), fault \in Faults : RunLoadFile(i, fault)
    \/ \E i \in 1..(MaxOps + 1), answer \in DialogAnswers, fault \in Faults :
          RunSaveFile(i, answer, fault)
    \/ FileSavedOk
    \/ FileSavedErr
    \/ FileOpenedOk
    \/ FileOpenedErr

SaveSpec == Init /\ [][NextSave]_vars

\* ------------------------------------- the executor and the dialogs are fair
\* The editor with the events New, Open and Save.
NextLive ==
    \/ New
    \/ Open
    \/ Save
    \/ \E i \in 1..(MaxOps + 1), fault \in Faults : RunLoadFile(i, fault)
    \/ \E i \in 1..(MaxOps + 1), answer \in DialogAnswers, fault \in Faults :
          RunPickFile(i, answer, fault)
    \/ \E i \in 1..(MaxOps + 1), answer \in DialogAnswers, fault \in Faults :
          RunSaveFile(i, answer, fault)
    \/ FileSavedOk
    \/ FileSavedErr
    \/ FileOpenedOk
    \/ FileOpenedErr

\* The executor polls every future to its end, every dialog is answered or
\* dismissed, and the runtime hands every completion message to update.
Fairness ==
    /\ WF_vars(\E i \in 1..(MaxOps + 1), fault \in Faults : RunLoadFile(i, fault))
    /\ WF_vars(\E i \in 1..(MaxOps + 1), answer \in DialogAnswers, fault \in Faults :
                  RunPickFile(i, answer, fault))
    /\ WF_vars(\E i \in 1..(MaxOps + 1), answer \in DialogAnswers, fault \in Faults :
                  RunSaveFile(i, answer, fault))
    /\ WF_vars(FileSavedOk)
    /\ WF_vars(FileSavedErr)
    /\ WF_vars(FileOpenedOk)
    /\ WF_vars(FileOpenedErr)

LiveSpec == Init /\ [][NextLive]_vars /\ Fairness

\* ------------------------------------------------ rendering the status bar
\* The fields view may find: any path a dialog can return, any error, and
\* the buffers one Edit makes of the empty one.
ViewPaths == {None} \cup {Some(p) : p \in AllPaths \cup {NonUtf8Path}}
ViewErrors == {None, Some(DialogClose)} \cup {Some(IOFailed(k)) : k \in IOKinds}
ViewContents == {ContentNew} \cup {ContentEdit(ContentNew, a) : a \in EditActions}

InitView ==
    /\ path \in ViewPaths
    /\ content \in ViewContents
    /\ error \in ViewErrors
    /\ theme \in Themes
    /\ fs \in InitFS
    /\ issued = 0
    /\ tasks = <<>>
    /\ msgs = <<>>
    /\ last = [tag |-> "Init"]
    /\ pre = [path |-> None, content |-> ContentNew, error |-> None,
              theme |-> "SolarizedDark"]
    /\ loaded = None
    /\ hist = InitHist

\* Editor::view: the texts of the status bar.
View ==
    /\ hist' = [hist EXCEPT !.shown = Some([status   |-> StatusText(error, path),
                                            position |-> PositionText(content)])]
    /\ UNCHANGED <<path, content, error, theme, fs, issued, tasks, msgs, last, pre,
                   loaded>>

ViewSpec == InitView /\ [][View]_vars

\* ------------------------------------------------------------ properties
LastOk(tag) == last.tag = tag /\ last.res.ok
LastErr(tag) == last.tag = tag /\ ~last.res.ok
EditStep == \E a \in EditActions : Edit(a)
\* The message the step just put on update's queue.
Delivered == msgs'[Len(msgs')]

\* C1: right after update processes Edit(a), for any action a, error is None,
\* whatever it was before.
C1_EditClearsError == last.tag = "Edit" => error = None

\* An Edit has just cleared an I/O failure.
C1_Witness ==
    /\ last.tag = "Edit"
    /\ pre.error = Some(IOFailed("NotFound"))
    /\ error = None

\* C2: right after update processes New, path is None and the buffer is the
\* empty Content, whatever the path, buffer and error were before.
C2_NewResets == last.tag = "New" => path = None /\ content = ContentNew

\* New has just discarded a path and a non-empty buffer while an error was set.
C2_Witness ==
    /\ last.tag = "New"
    /\ pre.path # None /\ pre.content # ContentNew /\ pre.error # None
    /\ path = None /\ content = ContentNew

\* C3 as stated: right after update processes FileOpened(Ok(p, c)), path is
\* Some(p) and the text of the buffer is exactly c.
C3_BufferTextIsContent ==
    LastOk("FileOpened") =>
        /\ path = Some(last.res.val.path)
        /\ ContentText(content) = last.res.val.content

\* C3 as amended: right after update processes FileOpened(Ok(p, c)), path is
\* Some(p) and the buffer holds the lines of c and nothing else, the cursor at
\* the start; its text is c when c ends with a single line break and c plus a
\* line break when c ends with none.
C3_FileOpenedReplaces ==
    LastOk("FileOpened") =>
        LET c == last.res.val.content
            n == Len(c)
        IN  /\ path = Some(last.res.val.path)
            /\ content.cursor = <<0, 0>>
            /\ JoinLines(content.lines) = (IF EndsWithNL(c) THEN SubSeq(c, 1, n - 1) ELSE c)
            /\ ~EndsWithNL(c) => ContentText(content) = Append(c, NL)
            /\ (EndsWithNL(c) /\ ~EndsWithNL(SubSeq(c, 1, n - 1))) => ContentText(content) = c

\* A load has just replaced a different, non-empty buffer.
C3_Witness ==
    /\ LastOk("FileOpened")
    /\ pre.content # ContentNew
    /\ pre.content.lines # content.lines
    /\ content = ContentWith(last.res.val.content)

\* A Save pressed while path and buffer are still those a load installed: the
\* step completes it with success.
SavesLoaded(i) ==
    /\ i \in 1..Len(tasks)
    /\ tasks[i].op = "save_file"
    /\ tasks[i].loaded # None
    /\ \E answer \in DialogAnswers, fault \in Faults : RunSaveFile(i, answer, fault)
    /\ Delivered.res.ok

\* C4 as stated: a Save of a buffer loaded from p with content c, unmodified
\* since, writes to p a content byte-identical to c.
C4_RoundTripIdentical ==
    [][\A i \in 1..(MaxOps + 1) :
          SavesLoaded(i) => fs'[tasks[i].loaded[1].path] = Some(tasks[i].loaded[1].content)]_vars

\* C4 as amended: such a Save writes c itself when c ends with a single line
\* break, and c followed by a line break when c ends with none.
C4_RoundTripNormalised ==
    [][\A i \in 1..(MaxOps + 1) :
          SavesLoaded(i) =>
              LET c == tasks[i].loaded[1].content
                  w == fs'[tasks[i].loaded[1].path]
              IN  /\ ~EndsWithNL(c) => w = Some(Append(c, NL))
                  /\ (EndsWithNL(c) /\ ~EndsWithNL(SubSeq(c, 1, Len(c) - 1))) => w = Some(c)]_vars

\* The save of an unmodified load has completed and is processed: the file
\* holds what was loaded from it.
C4_Witness ==
    /\ LastOk("FileSaved")
    /\ last.loaded = Some([path |-> default_file, content |-> <<"a", NL>>])
    /\ last.res.val = default_file
    /\ fs[default_file] = Some(<<"a", NL>>)
    /\ issued = 1

\* C5: right after update processes FileSaved(Ok(p)), path is Some(p), also
\* when it was None before, and buffer, error and theme are as before.
C5_FileSavedSetsPath ==
    LastOk("FileSaved") =>
        /\ path = Some(last.res.val)
        /\ content = pre.content /\ error = pre.error /\ theme = pre.theme

\* A first save has just given the document its path.
C5_Witness ==
    /\ LastOk("FileSaved")
    /\ pre.path = None
    /\ path = Some("/tmp/x.txt")

\* C6: a Save pressed with path None whose dialog is dismissed writes no file
\* and completes with FileSaved(Err(DialogClose)); processing that completion
\* sets error to Some(DialogClose) and leaves path and buffer as they were.
C6_CancelledSave ==
    [][/\ \A i \in 1..(MaxOps + 1), fault \in Faults :
            (/\ i <= Len(tasks)
             /\ tasks[i].op = "save_file" /\ tasks[i].path = None
             /\ RunSaveFile(i, None, fault))
                => /\ fs' = fs
                   /\ Delivered.tag = "FileSaved"
                   /\ Delivered.res = Err(DialogClose)
       /\ (FileSavedErr /\ Head(msgs).res.err = DialogClose)
                => /\ error' = Some(DialogClose)
                   /\ path' = path /\ content' = content]_vars

\* The completion of a dismissed save dialog has just been processed with no
\* path and no error before.
C6_Witness ==
    /\ LastErr("FileSaved")
    /\ last.res.err = DialogClose
    /\ pre.error = None /\ error = Some(DialogClose)
    /\ pre.path = None /\ path = None
    /\ content = pre.content /\ content # ContentNew

\* C7: processing FileOpened(Err(e)) or FileSaved(Err(e)) sets error to
\* Some(e) and leaves path, buffer and theme as they were; load_file of a path
\* that does not exist completes with Err(IOFailed(NotFound)).
C7_FailedCompletion ==
    [][/\ (FileOpenedErr \/ FileSavedErr)
            => /\ error' = Some(Head(msgs).res.err)
               /\ path' = path /\ content' = content /\ theme' = theme
       /\ \A i \in 1..(MaxOps + 1), fault \in Faults :
            (i <= Len(tasks) /\ RunLoadFile(i, fault) /\ fs[tasks[i].path[1]] = None)
                => Delivered.res = Err(IOFailed("NotFound"))]_vars

\* The startup load of a missing file has just failed over an edited buffer.
C7_Witness ==
    /\ LastErr("FileOpened")
    /\ last.op = "load_file"
    /\ error = Some(IOFailed("NotFound"))
    /\ pre.error = None
    /\ content = pre.content /\ content # ContentNew
    /\ path = pre.path

\* C8 as stated: path changes only in a step that processes FileOpened(Ok)
\* or FileSaved(Ok).
C8_PathChangesOnSuccessOnly ==
    [][path' # path => (FileOpenedOk \/ FileSavedOk)]_vars

\* C8 as amended: path changes only in a step that processes FileOpened(Ok),
\* FileSaved(Ok) or New, and only the first two set it to Some.
C8_PathChangesOnSuccessOrNew ==
    [][path' # path =>
          \/ (FileOpenedOk \/ FileSavedOk)
          \/ (New /\ path' = None)]_vars

\* New has just changed the path a load had set.
C8_Witness ==
    /\ last.tag = "New"
    /\ pre.path = Some("/tmp/x.txt") /\ path = None
    /\ issued = 1 /\ tasks = <<>> /\ msgs = <<>>

\* The status bar shows an I/O failure.
ShowsFailure == error # None /\ IsIOFailed(error[1])

\* C9 as stated: once the status bar shows an I/O failure it shows the same
\* text after every event but Edit, and the path or "New File" after an Edit.
C9_FailureShownUntilEdit ==
    [][ShowsFailure =>
          IF EditStep THEN StatusText(error', path') = PathText(path')
          ELSE StatusText(error', path') = StatusText(error, path)]_vars

\* C9 as amended: once the status bar shows an I/O failure it shows the same
\* text after every event but Edit and a failed completion; after an Edit it
\* shows the path or "New File", and after a failed completion what that
\* completion's error shows.
C9_FailureShownUntilEditOrFailure ==
    [][ShowsFailure =>
          IF EditStep THEN StatusText(error', path') = PathText(path')
          ELSE IF FileOpenedErr \/ FileSavedErr
               THEN StatusText(error', path') = StatusText(Some(Head(msgs).res.err), path)
          ELSE StatusText(error', path') = StatusText(error, path)]_vars

\* A load has just changed the path under a failure the status bar keeps showing.
C9_Witness ==
    /\ LastOk("FileOpened")
    /\ pre.error = error /\ ShowsFailure
    /\ pre.path # path
    /\ StatusText(error, path) = "permission denied"

\* C10: the completion of an Open that succeeds sets path and buffer to its
\* own result, also when an Open pressed later has completed and been
\* processed before it; nothing of the earlier result is left.
C10_LastCompletionWins ==
    (LastOk("FileOpened") /\ last.op = "pick_file") =>
        /\ path = Some(last.res.val.path)
        /\ content = ContentWith(last.res.val.content)
        /\ loaded = Some(last.res.val)

\* Two Opens were in flight; the one pressed first completed last and its
\* result has replaced the other's.
C10_Witness ==
    /\ LastOk("FileOpened") /\ last.op = "pick_file"
    /\ last.overtaken = {"pick_file"}
    /\ pre.path = Some("/tmp/x.txt") /\ pre.content = ContentWith(<<"a">>)
    /\ path = Some(default_file) /\ content = ContentWith(<<"a", NL>>)
    /\ msgs = <<>> /\ tasks = <<>>

\* The step presses Save on the buffer that Edit(insert "hi") made of the
\* empty one, with no path.
SavesHi == Save /\ path = None /\ content = ContentEdit(ContentNew, <<"Paste", Hi>>)

\* The step completes a save: the file at the path the completion carries
\* holds exactly the text the save was issued with, and no other file changed.
WritesWhole ==
    \A i \in 1..Len(tasks) :
        (/\ tasks[i].op = "save_file"
         /\ \E answer \in DialogAnswers, fault \in Faults : RunSaveFile(i, answer, fault)
         /\ Delivered.res.ok)
        => /\ fs'[Delivered.res.val] = Some(tasks[i].content)
           /\ \A p \in AllPaths \ {Delivered.res.val} : fs'[p] = fs[p]

\* C11 as stated: a successful Save replaces the whole file with the buffer
\* text; Save of the buffer "hi" with no path writes exactly "hi", and the
\* completion of a save the dialog answered with a path makes it the path.
C11_SaveWritesHi ==
    [][/\ SavesHi => tasks'[Len(tasks')].content = Hi
       /\ WritesWhole
       /\ FileSavedOk => path' = Some(Head(msgs).res.val)]_vars

\* C11: a successful Save replaces the whole file with the text it was
\* issued with, never appending; Save of the buffer "hi" with no path is
\* issued with "hi" and a line break, and the completion of a save makes
\* the path it carries the path.
C11_SaveReplacesFile ==
    [][/\ SavesHi => tasks'[Len(tasks')] = SaveTask(None, Hi \o <<NL>>, None)
       /\ WritesWhole
       /\ FileSavedOk => path' = Some(Head(msgs).res.val)]_vars

\* The only Save pressed, on the buffer "hi" with no path, has replaced the
\* one character of /tmp/x.txt and its completion has set the path.
C11_Witness ==
    /\ LastOk("FileSaved") /\ issued = 1
    /\ pre.path = None /\ path = Some("/tmp/x.txt")
    /\ content = ContentEdit(ContentNew, <<"Paste", Hi>>)
    /\ fs["/tmp/x.txt"] = Some(Hi \o <<NL>>)

\* The loads of the default file that are running or whose completion update
\* has not processed yet.
StartupLoads ==
    Cardinality({i \in 1..Len(tasks) : tasks[i].op = "load_file"})
      + Cardinality({i \in 1..Len(msgs) : msgs[i].op = "load_file"})

\* update has just processed the completion of the load of the default file.
StartupDone == last.tag = "FileOpened" /\ last.op = "load_file"

\* C12: before update has processed anything path is None, the buffer empty,
\* error None and exactly one load, of the default file, is in flight and no
\* second one ever is; the load yields the file's path and content or an
\* I/O failure; when update processes its failure, error is
\* Some(IOFailed(kind)), path and buffer are what they were (None and
\* empty when nothing else was processed) and events are still accepted;
\* when it processes its success, path and buffer are the default file's
\* path and the content read.
C12_Startup ==
    /\ [](/\ last.tag = "Init" =>
              /\ path = None /\ content = ContentNew /\ error = None
              /\ StartupLoads = 1
          /\ StartupLoads <= 1
          /\ \A i \in 1..Len(tasks) :
                tasks[i].op = "load_file" => tasks[i].path = Some(default_file)
          /\ (StartupDone /\ ~last.res.ok) =>
                /\ error = Some(last.res.err) /\ IsIOFailed(last.res.err)
                /\ path = pre.path /\ content = pre.content
                /\ ENABLED New
          /\ (StartupDone /\ last.res.ok) =>
                /\ last.res.val.path = default_file
                /\ path = Some(default_file)
                /\ content = ContentWith(last.res.val.content))
    /\ [][\A i \in 1..Len(tasks), fault \in Faults :
            RunLoadFile(i, fault) =>
              Delivered.res \in
                {Ok([path |-> default_file, content |-> txt[1]]) :
                    txt \in {fs[default_file]} \ {None}}
                  \cup {Err(IOFailed(k)) : k \in IOKinds}]_vars

\* The load of the missing default file failed first of all: NotFound is
\* shown, and path and buffer are still None and empty.
C12_Witness ==
    /\ StartupDone /\ ~last.res.ok /\ hist.done = 1
    /\ pre.error = None
    /\ error = Some(IOFailed("NotFound")) /\ path = None /\ content = ContentNew

\* C13 as stated: the status text is the failure's description when error is
\* an I/O failure, else the path when path is Some, else "New File"; with
\* error = Some(DialogClose) it is the path or "New File".
C13_StatusBar ==
    hist.shown # None =>
        hist.shown[1].status =
            IF error # None /\ IsIOFailed(error[1]) THEN KindText(error[1][2])
            ELSE IF path # None THEN path[1]
            ELSE "New File"

\* view has rendered "New File" for a path that is Some and not valid UTF-8.
C13_Witness ==
    /\ hist.shown # None
    /\ path = Some(NonUtf8Path) /\ error = Some(DialogClose)
    /\ hist.shown[1].status = "New File"

\* The buffer that applying the actions of as, each once and in order,
\* makes of the empty buffer.
RECURSIVE ApplyAll(_)
ApplyAll(as) ==
    IF as = <<>> THEN ContentNew
    ELSE ContentEdit(ApplyAll(SubSeq(as, 1, Len(as) - 1)), as[Len(as)])

\* C14: while update has processed nothing but Edit events since startup,
\* where the buffer is empty, the buffer (text and cursor) is what applying
\* the action of each of them once, in the order received, makes of the
\* empty buffer.
C14_EditsApplied == hist.edits # None => content = ApplyAll(hist.edits[1])

\* Three Edits whose order matters were processed: insert, move left,
\* backspace leave the character with the cursor before it.
C14_Witness ==
    /\ hist.edits = Some(<<(<<"Insert", "a">>), (<<"MoveLeft">>), (<<"Backspace">>)>>)
    /\ content = [lines |-> <<(<<"a">>)>>, cursor |-> <<0, 0>>]

\* C15: every operation issued (the startup load and one per press of Open
\* or Save) is running, or has its one completion message waiting, or had it
\* processed by update, so none is cancelled, lost or completed twice; the
\* message of a save is FileSaved and of an open or load FileOpened, and
\* it carries Ok or Err; and when the executor and the dialogs are fair,
\* update eventually processes as many completions as operations were issued.
C15_CompletesOnce ==
    /\ [](issued + 1 = Len(tasks) + Len(msgs) + hist.done)
    /\ [](\A i \in 1..Len(msgs) :
            /\ msgs[i].tag = IF msgs[i].op = "save_file" THEN "FileSaved"
                             ELSE "FileOpened"
            /\ msgs[i].res.ok \in BOOLEAN)
    /\ \A k \in 1..(MaxOps + 1) : (issued + 1 >= k) ~> (hist.done >= k)

\* Two presses were made and update has processed the completion of the
\* startup load and of both, the last a failure.
C15_Witness ==
    /\ issued = 2 /\ hist.done = 3
    /\ tasks = <<>> /\ msgs = <<>>
    /\ last.tag \in {"FileOpened", "FileSaved"} /\ ~last.res.ok

\* C16: a step in which update processes Open or Save leaves path, buffer,
\* error and theme as they are, touches no file and completes nothing; all
\* it does is issue one operation, pick_file for Open and save_file for
\* Save. A step in which an operation runs to its completion leaves the
\* four fields alone too: they change only when update processes a message.
C16_PressOnlyIssues ==
    [][/\ issued' # issued =>
            /\ last'.tag \in {"Open", "Save"}
            /\ UNCHANGED <<path, content, error, theme, fs, msgs>>
            /\ Len(tasks') = Len(tasks) + 1
            /\ SubSeq(tasks', 1, Len(tasks)) = tasks
            /\ tasks'[Len(tasks')].op =
                  IF last'.tag = "Open" THEN "pick_file" ELSE "save_file"
       /\ Len(tasks') < Len(tasks) => UNCHANGED <<path, content, error, theme>>
       /\ <<path, content, error, theme>>' # <<path, content, error, theme>> =>
            /\ last'.tag \notin {"Open", "Save"}
            /\ pre' = [path |-> path, content |-> content, error |-> error,
                       theme |-> theme]]_vars

\* Save was just processed with a failure shown, a file open, a buffer that
\* is not empty and the second theme: all four are as before it.
C16_Witness ==
    /\ last.tag = "Save"
    /\ error # None /\ path # None /\ content # ContentNew
    /\ theme = "InspiredGitHub"
    /\ pre = [path |-> path, content |-> content, error |-> error, theme |-> theme]
    /\ tasks # <<>> /\ tasks[Len(tasks)].op = "save_file"

\* The step presses Save.
SavePress == issued' # issued /\ last'.tag = "Save"

\* The step runs the save at position i to its completion.
SaveRuns(i) ==
    /\ i \in 1..Len(tasks)
    /\ tasks[i].op = "save_file"
    /\ \E answer \in DialogAnswers, fault \in Faults : RunSaveFile(i, answer, fault)

\* C17: Save hands save_file the path of the moment it is pressed. A save
\* issued with Some(p) consults no dialog (its step is the same whatever a
\* dialog would answer, and it never ends in DialogClose): it writes to p
\* and to no other file, and on success its completion is FileSaved(Ok(p)).
\* A save issued with None asks the dialog: dismissed, it ends in
\* DialogClose. Completed successfully, a save stores its path, which the
\* next Save is issued with.
C17_SaveReusesPath ==
    [][/\ SavePress => tasks'[Len(tasks')].path = path
       /\ \A i \in 1..Len(tasks) :
            (SaveRuns(i) /\ tasks[i].path # None) =>
               /\ \A answer \in DialogAnswers :
                     \E fault \in Faults : RunSaveFile(i, answer, fault)
               /\ Delivered.res # Err(DialogClose)
               /\ \A q \in AllPaths \ {tasks[i].path[1]} : fs'[q] = fs[q]
               /\ Delivered.res.ok =>
                     /\ Delivered.res = Ok(tasks[i].path[1])
                     /\ fs'[tasks[i].path[1]] = Some(tasks[i].content)
       /\ \A i \in 1..Len(tasks) :
            (/\ i \in 1..Len(tasks) /\ tasks[i].op = "save_file"
             /\ tasks[i].path = None
             /\ \E fault \in Faults : RunSaveFile(i, None, fault))
            => Delivered.res = Err(DialogClose) /\ fs' = fs
       /\ (msgs # <<>> /\ msgs' = Tail(msgs) /\ LastOk("FileSaved")') =>
            path' = Some(last'.res.val)]_vars

\* A save pressed while the path and buffer were those of a load has been
\* completed and processed: it wrote to the loaded file's path, which is
\* the path before and after.
C17_Witness ==
    /\ LastOk("FileSaved")
    /\ last.loaded # None
    /\ last.res.val = last.loaded[1].path
    /\ pre.path = Some(last.res.val) /\ path = pre.path

\* The path and the text a future was issued with.
Args(t) == <<t.path, t.content>>

\* C18: Save issues save_file with the path and the buffer text of the
\* moment it is pressed; whatever update processes and whatever else
\* completes while the save is in flight leaves both as issued; and the
\* save, when it runs and succeeds, writes that text, to that path when
\* there is one, whatever path and buffer are by then.
C18_SaveSnapshot ==
    [][/\ SavePress => Args(tasks'[Len(tasks')]) = <<path, ContentText(content)>>
       /\ \A i \in 1..Len(tasks) :
            tasks[i].op = "save_file" =>
               \/ SaveRuns(i)
               \/ i <= Len(tasks') /\ Args(tasks'[i]) = Args(tasks[i])
               \/ /\ Len(tasks') < Len(tasks) /\ i > 1
                  /\ Args(tasks'[i - 1]) = Args(tasks[i])
       /\ \A i \in 1..Len(tasks) :
            (SaveRuns(i) /\ Delivered.res.ok) =>
               /\ fs'[Delivered.res.val] = Some(tasks[i].content)
               /\ tasks[i].path \in {None, Some(Delivered.res.val)}]_vars

\* The first Save was pressed on the empty buffer with no path; then
\* update processed the startup load, which replaced path and buffer; then
\* a second Save was pressed and ran; the first ran last and wrote the
\* empty buffer's text to the path its dialog gave.
C18_Witness ==
    /\ Len(msgs) = 2 /\ hist.done = 1
    /\ msgs[1].tag = "FileSaved" /\ msgs[1].loaded # None
    /\ msgs[2].tag = "FileSaved" /\ msgs[2].loaded = None
    /\ "save_file" \in msgs[2].overtaken
    /\ msgs[2].res = Ok("/tmp/x.txt")
    /\ fs["/tmp/x.txt"] = Some(<<NL>>)
    /\ path = Some(default_file) /\ content = ContentWith(<<"a", NL>>)

\* C19: in every reachable state path is None when update has processed no
\* successful completion since startup or since the latest New it
\* processed, and otherwise Some(p) for the p that the latest successful
\* completion it processed carries, whenever that operation was issued.
C19_PathIsLatestSuccess == path = hist.success

\* A save issued with the path of a loaded file completed successfully
\* after New had cleared the path: its completion has set the path again.
C19_Witness ==
    /\ LastOk("FileSaved")
    /\ last.loaded # None
    /\ pre.path = None
    /\ path = Some(last.res.val)

\* C20: in every reachable state error is None when update has processed no
\* failed completion since startup or since the latest Edit it processed,
\* and otherwise Some(e) for the error e of the latest failed completion it
\* processed; New, Open, Save, ThemeSelected and successful completions
\* leave error as it is.
C20_ErrorIsLatestFailure ==
    /\ error = hist.failure
    /\ (\/ last.tag \in {"New", "Open", "Save", "ThemeSelected"}
        \/ LastOk("FileOpened")
        \/ LastOk("FileSaved")) => error = pre.error

\* A failure was shown when New was processed, and it is still the error.
C20_Witness ==
    /\ last.tag = "New"
    /\ pre.error = Some(IOFailed("PermissionDenied"))
    /\ error = pre.error
    /\ path = None /\ content = ContentNew
====
